---- MODULE Spec2Model ----
(***************************************************************************)
(* Model of the ExperimentationScreen component (water electrolysis lab).  *)
(*                                                                         *)
(* The component keeps its state in React hooks: voltage, current, the     *)
(* bubble list, and the production series (time, hydrogenData,             *)
(* oxygenData).  Three effects install setInterval timers: the bubble      *)
(* (spawn) interval, the remove (sweep) interval and the tracking (tick)   *)
(* interval.  The source holds several variants of the component, which    *)
(* differ in the increment formula (Faraday / linear) and in the chart     *)
(* window (zero-padded / unpadded).                                        *)
(*                                                                         *)
(* Numbers.  voltage and current are slider values with step 0.1 and are   *)
(* held in tenths (current = 5 is 0.5 A).  Times are milliseconds.  Gas    *)
(* amounts are exact fixed-point integers: in the linear variants one unit *)
(* is 0.1, in the Faraday variant one unit is 1/(400 * faraday) mL.        *)
(* Rounding of IEEE doubles is not modelled; scaling by 2 is exact there.  *)
(*                                                                         *)
(* Timers are ideal: a callback runs at the instant its interval is due,   *)
(* and time does not pass an interval that is due.                         *)
(***************************************************************************)
EXTENDS Integers, Sequences, FiniteSets, TLC

VARIABLES
    mounted,        \* the component is mounted
    variant,        \* which variant of the component is built
    voltage,        \* useState(5), tenths of a volt
    current,        \* useState(0.5), tenths of an ampere
    bubbles,        \* useState<Bubble[]>([])
    time,           \* useState(0): elapsed active ticks
    hydrogenData,   \* useState<number[]>([])
    oxygenData,     \* useState<number[]>([])
    intervals,      \* the live setInterval timers, each with its closure
    now,            \* Date.now(), ms since the mount
    lastFired,      \* history: the step taken last
    unmountedAt,    \* history: the time of the unmount, -1 before it
    changes,        \* history: number of slider changes so far
    tickCurrents,   \* history: the state's current at each active tick
    removed,        \* history: the bubbles the step taken last removed
    expired,        \* history: the ids of all bubbles removed so far
    screen,         \* App: useState('splash'), the screen shown
    splashTimeout,  \* App: the pending setTimeout of the splash effect
    sinceChange     \* history: ms since the effects with deps last ran or were
                    \* cleaned up, counted up to one period

vars == <<mounted, variant, voltage, current, bubbles, time, hydrogenData,
          oxygenData, intervals, now, lastFired, unmountedAt, changes,
          tickCurrents, removed, expired, screen, splashTimeout, sinceChange>>

----------------------------------------------------------------------------
(* Bounds of the exploration *)

MaxSteps == 18           \* clock steps of the exploration
MaxSamples == 12
MaxChanges == 2

Deltas == {250}
Voltages == {10, 50}
SeriesVoltages == {10, 50, 120}
Currents == {1, 5, 10}
RandomDraws == {<<0, 0>>, <<99, 99>>}   \* pairs of Math.random() values, in 1/100
Variants == {"faradayPadded", "linearPadded", "linearUnpadded"}

----------------------------------------------------------------------------
(* Program constants *)

sliderVoltageMin == 10
sliderVoltageMax == 120
sliderCurrentMin == 1
sliderCurrentMax == 50
productionFactor == 10
faraday == 96485
gasConstant == 821          \* 0.0821 L atm / (mol K), in 1/10000
temperature == 298
pressure == 1
hydrogenElectrons == 2
oxygenElectrons == 4
bubblePeriod == 1000
removePeriod == 500
trackingPeriod == 1000
bubbleLifetime == 3000
leftAnimationDuration == 3000
rightAnimationDuration == 5000
windowSize == 10
initialVoltage == 50
initialCurrent == 5

----------------------------------------------------------------------------
(* Pure functions *)

IsFaraday(var) == var = "faradayPadded"
IsPadded(var) == var # "linearUnpadded"

\* variant of Gate: || in place of &&
GateEither(v, c) == v > 10 \/ c > 1

\* voltage > 1 && current > 0.1
Gate(v, c) == v > 10 /\ c > 1

\* variant of Moles: the electrons per molecule are left out
MolesNoElectrons(c, electrons) == (c * 4 * faraday) \div faraday

\* current / (k * faraday), in units of 1/(40 * faraday) mol
Moles(c, electrons) == (c * 4 * faraday) \div (electrons * faraday)

\* volume = moles * gasConstant * temperature / pressure  (litres, in units
\* of 1/(400000 * faraday)); volume * 1000 is the same count of units of
\* 1/(400 * faraday) mL.
calculateGasRate(c, moles) ==
    LET volume == (moles * gasConstant * temperature) \div pressure
    IN  volume

\* x.toFixed(2) of a volume counted in units of 1/(400 * faraday) mL: the
\* hundredths of a mL, rounded half up
toFixed2(n) == (n + 2 * faraday) \div (4 * faraday)

\* x.toExponential(2) of an amount counted in units of 1/(40 * faraday) mol:
\* <<three-digit mantissa, decimal exponent>>, "0.00e+0" for zero
toExponential2(m) ==
    IF m = 0 THEN <<0, 0>>
    ELSE LET den == (4 * faraday) \div 10
             s == IF m * 1000 >= den THEN 5 ELSE IF m * 10000 >= den THEN 6 ELSE 7
             p == IF s = 5 THEN 100000 ELSE IF s = 6 THEN 1000000 ELSE 10000000
             mant == (m * p + den \div 2) \div den
         IN  IF mant >= 1000 THEN <<100, 1 - s>> ELSE <<mant, 0 - s>>

\* calculateGasRate(current, current / (k * faraday)).toFixed(2), rendered
\* without a test of voltage or current
RateFixed(c, electrons) == toFixed2(calculateGasRate(c, Moles(c, electrons)))

\* hydrogenRate = current / (2 * faraday), oxygenRate = current / (4 * faraday),
\* rendered with toExponential(2) without a test of voltage or current
RateExponential(c, electrons) == toExponential2(Moles(c, electrons))

\* variant of hydrogenProduced: the production factor is left out
hydrogenProducedNoFactor(var, c) ==
    IF IsFaraday(var)
    THEN calculateGasRate(c, Moles(c, hydrogenElectrons))
    ELSE c

hydrogenProduced(var, c) ==
    IF IsFaraday(var)
    THEN calculateGasRate(c, Moles(c, hydrogenElectrons))
    ELSE c * productionFactor

\* variant of oxygenProduced: twice the hydrogen in place of half of it
oxygenProducedDoubled(var, c) ==
    IF IsFaraday(var)
    THEN calculateGasRate(c, Moles(c, 1))
    ELSE (c * productionFactor) * 2

oxygenProduced(var, c) ==
    IF IsFaraday(var)
    THEN calculateGasRate(c, Moles(c, oxygenElectrons))
    ELSE (c * productionFactor) \div 2

\* variant of LastOrZero: prev[0] in place of prev.slice(-1)[0]
LastOrZeroFirst(prev) == IF Len(prev) = 0 THEN 0 ELSE prev[1]

\* prev.slice(-1)[0] || 0
LastOrZero(prev) == IF Len(prev) = 0 THEN 0 ELSE prev[Len(prev)]

\* variant of AppendCumulative: the previous total is not added
AppendProduced(prev, produced) == Append(prev, produced)

\* [...prev, (prev.slice(-1)[0] || 0) + produced]
AppendCumulative(prev, produced) == Append(prev, LastOrZero(prev) + produced)

\* variant of NextTime: time + 1 with the time of the first render
NextTimeStale(t) == 1

\* prev + 1
NextTime(t) == t + 1

\* variant of SliceLast: slice(0, n) in place of slice(-n)
SliceFirst(arr, n) ==
    IF Len(arr) <= n THEN arr ELSE SubSeq(arr, 1, n)

\* arr.slice(-n)
SliceLast(arr, n) ==
    IF Len(arr) <= n THEN arr ELSE SubSeq(arr, Len(arr) - n + 1, Len(arr))

Max(a, b) == IF a >= b THEN a ELSE b

\* Array(n).fill(0)
Zeros(n) == [i \in 1..n |-> 0]

\* data.length ? [...Array(Math.max(0, 10 - data.length)).fill(0), ...data].slice(-10) : [0]
\* (padded variants);  data.slice(-10) (unpadded variant)
chartData(var, data) ==
    IF IsPadded(var)
    THEN IF Len(data) # 0
         THEN SliceLast(Zeros(Max(0, windowSize - Len(data))) \o data, windowSize)
         ELSE <<0>>
    ELSE SliceLast(data, windowSize)

\* Array.from({length: Math.max(10, time)}, (_, i) => i + 1).slice(-10) (padded)
\* Array.from({length: time}, (_, i) => i).slice(-10)                  (unpadded)
chartLabels(var, t) ==
    IF IsPadded(var)
    THEN SliceLast([i \in 1..Max(windowSize, t) |-> i], windowSize)
    ELSE SliceLast([i \in 1..t |-> i - 1], windowSize)

chartHydrogenData == chartData(variant, hydrogenData)
chartOxygenData == chartData(variant, oxygenData)

\* variant of RandomLeft: the offset of 10 is left out
RandomLeftNoOffset(r) == (r * 80) \div 100

\* Math.random() * 80 + 10, in percent of the tube width
RandomLeft(r) == (r * 80) \div 100 + 10

\* Math.random() < 0.5 ? 'left' : 'right'
RandomSide(r) == IF r < 50 THEN "left" ELSE "right"

\* variant of NewBubble: the id is the time within the second
NewBubbleCyclicId(t, r1, r2) ==
    [id |-> t % 1000, left |-> RandomLeft(r1), side |-> RandomSide(r2)]

\* { id: Date.now(), left: ..., side: ... }
NewBubble(t, r1, r2) == [id |-> t, left |-> RandomLeft(r1), side |-> RandomSide(r2)]

\* variant of AddBubble: the new bubble is put in front
PrependBubble(prev, newBubble) == <<newBubble>> \o prev

\* variant of AddBubble: the previous bubbles are not spread
ReplaceBubble(prev, newBubble) == <<newBubble>>

\* [...prev, newBubble]
AddBubble(prev, newBubble) == Append(prev, newBubble)

\* FloatingBubble: animationDuration = side === 'right' ? 5000 : 3000 in the
\* Faraday variant, duration: 3000 in the linear variants
animationDuration(var, side) ==
    IF IsFaraday(var)
    THEN IF side = "right" THEN rightAnimationDuration ELSE leftAnimationDuration
    ELSE leftAnimationDuration

\* variant of Fresh: the lifetime is the animation duration of the side
FreshBySide(t, bubble) ==
    t - bubble.id < (IF bubble.side = "right" THEN rightAnimationDuration
                                                ELSE leftAnimationDuration)

\* variant of Fresh: <= in place of <
FreshInclusive(t, bubble) == t - bubble.id <= bubbleLifetime

\* Date.now() - bubble.id < 3000
Fresh(t, bubble) == t - bubble.id < bubbleLifetime

\* variant of FilterFresh: the comparison is inverted
FilterExpired(prev, t) == SelectSeq(prev, LAMBDA b : ~Fresh(t, b))

\* prev.filter(bubble => Date.now() - bubble.id < 3000)
FilterFresh(prev, t) == SelectSeq(prev, LAMBDA b : Fresh(t, b))

----------------------------------------------------------------------------
(* Timers *)

Interval(kind, due, v, c) ==
    [kind |-> kind, due |-> due, voltage |-> v, current |-> c]

\* variant of DepEffects: the new intervals keep the phase of the old ones
DepEffectsKeepPhase(v, c, t) ==
    (IF Gate(v, c)
     THEN {Interval("bubble", ((t \div bubblePeriod) + 1) * bubblePeriod, v, c)}
     ELSE {})
    \cup {Interval("tracking", ((t \div trackingPeriod) + 1) * trackingPeriod, v, c)}

\* variant of DepEffects: the bubble interval is started without the gate
DepEffectsUngated(v, c, t) ==
    {Interval("bubble", t + bubblePeriod, v, c)}
    \cup {Interval("tracking", t + trackingPeriod, v, c)}

\* the effects with deps [voltage, current], run with the values v, c:
\* the bubble interval only under the gate, the tracking interval always
DepEffects(v, c, t) ==
    (IF Gate(v, c) THEN {Interval("bubble", t + bubblePeriod, v, c)} ELSE {})
    \cup {Interval("tracking", t + trackingPeriod, v, c)}

\* variant of DepCleanup: the effects return no cleanup
DepCleanupNone(ivs) == ivs

\* the cleanups of the effects with deps [voltage, current]
DepCleanup(ivs) == {i \in ivs : i.kind \notin {"bubble", "tracking"}}

\* the effect with deps []
MountEffect(v, c, t) == {Interval("remove", t + removePeriod, v, c)}

Rearm(ivs, i, period) == (ivs \ {i}) \cup {[i EXCEPT !.due = now + period]}

----------------------------------------------------------------------------
(* State machine *)

Init ==
    /\ mounted = TRUE
    /\ variant \in Variants
    /\ voltage = initialVoltage
    /\ current = initialCurrent
    /\ bubbles = <<>>
    /\ time = 0
    /\ hydrogenData = <<>>
    /\ oxygenData = <<>>
    /\ now = 0
    /\ intervals = DepEffects(initialVoltage, initialCurrent, 0)
                     \cup MountEffect(initialVoltage, initialCurrent, 0)
    /\ lastFired = "mount"
    /\ unmountedAt = -1
    /\ changes = 0
    /\ tickCurrents = <<>>
    /\ removed = <<>>
    /\ expired = {}
    /\ sinceChange = 0
    /\ screen = "experiment"
    /\ splashTimeout = {}

\* variant of SetVoltage: the series are reset when the slider moves
SetVoltageReset(v) ==
    /\ mounted
    /\ v # voltage
    /\ changes < MaxChanges
    /\ changes' = changes + 1
    /\ UNCHANGED unmountedAt
    /\ voltage' = v
    /\ intervals' = DepCleanup(intervals) \cup DepEffects(v, current, now)
    /\ lastFired' = "setVoltage"
    /\ removed' = <<>>
    /\ sinceChange' = 0
    /\ UNCHANGED <<expired, screen, splashTimeout>>
    /\ time' = 0 /\ hydrogenData' = <<>> /\ oxygenData' = <<>>
    /\ UNCHANGED <<mounted, variant, current, bubbles, now, tickCurrents>>

\* Slider onValueChange={setVoltage}; the effects depending on voltage re-run
SetVoltage(v) ==
    /\ mounted
    /\ v # voltage
    /\ changes < MaxChanges
    /\ changes' = changes + 1
    /\ UNCHANGED unmountedAt
    /\ voltage' = v
    /\ intervals' = DepCleanup(intervals) \cup DepEffects(v, current, now)
    /\ lastFired' = "setVoltage"
    /\ removed' = <<>>
    /\ sinceChange' = 0
    /\ UNCHANGED <<expired, screen, splashTimeout>>
    /\ UNCHANGED <<mounted, variant, current, bubbles, time, hydrogenData,
                   oxygenData, now, tickCurrents>>

\* variant of SetCurrent: the effects depending on current are not re-run
SetCurrentStaleTick(c) ==
    /\ mounted
    /\ c # current
    /\ changes < MaxChanges
    /\ changes' = changes + 1
    /\ UNCHANGED unmountedAt
    /\ current' = c
    /\ intervals' = intervals
    /\ lastFired' = "setCurrent"
    /\ removed' = <<>>
    /\ sinceChange' = 0
    /\ UNCHANGED <<expired, screen, splashTimeout>>
    /\ UNCHANGED <<mounted, variant, voltage, bubbles, time, hydrogenData,
                   oxygenData, now, tickCurrents>>

\* variant of SetCurrent: the bubbles are dropped when the gate closes
SetCurrentClearsBubbles(c) ==
    /\ mounted
    /\ c # current
    /\ changes < MaxChanges
    /\ changes' = changes + 1
    /\ UNCHANGED unmountedAt
    /\ current' = c
    /\ intervals' = DepCleanup(intervals) \cup DepEffects(voltage, c, now)
    /\ lastFired' = "setCurrent"
    /\ removed' = <<>>
    /\ sinceChange' = 0
    /\ bubbles' = IF Gate(voltage, c) THEN bubbles ELSE <<>>
    /\ UNCHANGED <<expired, screen, splashTimeout>>
    /\ UNCHANGED <<mounted, variant, voltage, time, hydrogenData,
                   oxygenData, now, tickCurrents>>

\* Slider onValueChange={setCurrent}; the effects depending on current re-run
SetCurrent(c) ==
    /\ mounted
    /\ c # current
    /\ changes < MaxChanges
    /\ changes' = changes + 1
    /\ UNCHANGED unmountedAt
    /\ current' = c
    /\ intervals' = DepCleanup(intervals) \cup DepEffects(voltage, c, now)
    /\ lastFired' = "setCurrent"
    /\ removed' = <<>>
    /\ sinceChange' = 0
    /\ UNCHANGED <<expired, screen, splashTimeout>>
    /\ UNCHANGED <<mounted, variant, voltage, bubbles, time, hydrogenData,
                   oxygenData, now, tickCurrents>>

\* variant of SpawnBubble: the interval comes back after half a second
SpawnBubbleFast(i, r) ==
    /\ i \in intervals /\ i.kind = "bubble" /\ i.due = now
    /\ bubbles' = AddBubble(bubbles, NewBubble(now, r[1], r[2]))
    /\ intervals' = Rearm(intervals, i, removePeriod)
    /\ lastFired' = "bubble"
    /\ removed' = <<>>
    /\ UNCHANGED <<expired, screen, splashTimeout, sinceChange>>
    /\ UNCHANGED <<unmountedAt, changes, mounted, variant, voltage, current, time, hydrogenData,
                   oxygenData, now, tickCurrents>>

\* the bubbleInterval callback
SpawnBubble(i, r) ==
    /\ i \in intervals /\ i.kind = "bubble" /\ i.due = now
    /\ bubbles' = AddBubble(bubbles, NewBubble(now, r[1], r[2]))
    /\ intervals' = Rearm(intervals, i, bubblePeriod)
    /\ lastFired' = "bubble"
    /\ removed' = <<>>
    /\ UNCHANGED <<expired, screen, splashTimeout, sinceChange>>
    /\ UNCHANGED <<unmountedAt, changes, mounted, variant, voltage, current, time, hydrogenData,
                   oxygenData, now, tickCurrents>>

Range(seq) == {seq[k] : k \in DOMAIN seq}

\* the removeInterval callback
RemoveExpired(i) ==
    /\ i \in intervals /\ i.kind = "remove" /\ i.due = now
    /\ bubbles' = FilterFresh(bubbles, now)
    /\ intervals' = Rearm(intervals, i, removePeriod)
    /\ lastFired' = "remove"
    /\ removed' = SelectSeq(bubbles, LAMBDA b : b \notin Range(bubbles'))
    /\ expired' = expired \cup {removed'[k].id : k \in DOMAIN removed'}
    /\ UNCHANGED <<screen, splashTimeout, sinceChange>>
    /\ UNCHANGED <<unmountedAt, changes, mounted, variant, voltage, current, time, hydrogenData,
                   oxygenData, now, tickCurrents>>

\* variant of TrackingBody: the amounts grow with the voltage
TrackingBodyByVoltage(v, c) ==
    IF Gate(v, c)
    THEN /\ hydrogenData' = AppendCumulative(hydrogenData, hydrogenProduced(variant, c) * (v \div 50))
         /\ oxygenData' = AppendCumulative(oxygenData, oxygenProduced(variant, c) * (v \div 50))
         /\ time' = NextTime(time)
         /\ tickCurrents' = Append(tickCurrents, current)
    ELSE UNCHANGED <<hydrogenData, oxygenData, time, tickCurrents>>

\* the body of the trackingInterval callback, with the closure's v and c
TrackingBody(v, c) ==
    IF Gate(v, c)
    THEN /\ hydrogenData' = AppendCumulative(hydrogenData, hydrogenProduced(variant, c))
         /\ oxygenData' = AppendCumulative(oxygenData, oxygenProduced(variant, c))
         /\ time' = NextTime(time)
         /\ tickCurrents' = Append(tickCurrents, current)
    ELSE UNCHANGED <<hydrogenData, oxygenData, time, tickCurrents>>

\* variant of Track: the tracking callback also adds a bubble
TrackAndSpawn(i) ==
    /\ i \in intervals /\ i.kind = "tracking" /\ i.due = now
    /\ TrackingBody(i.voltage, i.current)
    /\ intervals' = Rearm(intervals, i, trackingPeriod)
    /\ lastFired' = "tracking"
    /\ removed' = <<>>
    /\ UNCHANGED <<expired, screen, splashTimeout, sinceChange>>
    /\ bubbles' = AddBubble(bubbles, NewBubble(now, 0, 0))
    /\ UNCHANGED <<unmountedAt, changes, mounted, variant, voltage, current, now>>

\* the trackingInterval callback
Track(i) ==
    /\ i \in intervals /\ i.kind = "tracking" /\ i.due = now
    /\ TrackingBody(i.voltage, i.current)
    /\ intervals' = Rearm(intervals, i, trackingPeriod)
    /\ lastFired' = "tracking"
    /\ removed' = <<>>
    /\ UNCHANGED <<expired, screen, splashTimeout, sinceChange>>
    /\ UNCHANGED <<unmountedAt, changes, mounted, variant, voltage, current, bubbles, now>>

\* variant of Unmount: the effects return no cleanup
UnmountNoCleanup ==
    /\ mounted
    /\ mounted' = FALSE
    /\ intervals' = intervals
    /\ lastFired' = "unmount"
    /\ removed' = <<>>
    /\ screen' = "home"
    /\ sinceChange' = 0
    /\ UNCHANGED <<expired, splashTimeout>>
    /\ unmountedAt' = now
    /\ UNCHANGED <<changes, variant, voltage, current, bubbles, time, hydrogenData,
                   oxygenData, now, tickCurrents>>

\* onBack={() => setScreen('home')}: the screen is left, every effect's
\* cleanup runs
Unmount ==
    /\ mounted
    /\ mounted' = FALSE
    /\ intervals' = {}
    /\ lastFired' = "unmount"
    /\ removed' = <<>>
    /\ screen' = "home"
    /\ sinceChange' = 0
    /\ UNCHANGED <<expired, splashTimeout>>
    /\ unmountedAt' = now
    /\ UNCHANGED <<changes, variant, voltage, current, bubbles, time, hydrogenData,
                   oxygenData, now, tickCurrents>>

\* time passes, never beyond an interval that is due; after the unmount it
\* is followed for one more period of the slowest interval
Advance(d) ==
    /\ now + d <= MaxSteps * d
    /\ mounted \/ now + d <= unmountedAt + trackingPeriod
    /\ \A i \in intervals : now + d <= i.due
    /\ now' = now + d
    /\ lastFired' = "advance"
    /\ removed' = <<>>
    /\ sinceChange' = IF sinceChange + d < trackingPeriod
                      THEN sinceChange + d ELSE trackingPeriod
    /\ UNCHANGED <<expired, screen, splashTimeout>>
    /\ UNCHANGED <<unmountedAt, changes, mounted, variant, voltage, current, bubbles, time,
                   hydrogenData, oxygenData, intervals, tickCurrents>>

Next ==
    \/ \E v \in Voltages : SetVoltage(v)
    \/ \E c \in Currents : SetCurrent(c)
    \/ \E i \in intervals, r \in RandomDraws : SpawnBubble(i, r)
    \/ \E i \in intervals : RemoveExpired(i)
    \/ \E i \in intervals : Track(i)
    \/ Unmount
    \/ \E d \in Deltas : Advance(d)

Spec == Init /\ [][Next]_vars

----------------------------------------------------------------------------
(* The production model alone: the sliders and the tracking callback, with *)
(* the passage of time and the bubble field left out.  The callback runs   *)
(* with the values the last run of its effect captured.                    *)

Sample(i) ==
    /\ mounted
    /\ i \in intervals /\ i.kind = "tracking"
    /\ Len(hydrogenData) < MaxSamples
    /\ TrackingBody(i.voltage, i.current)
    /\ lastFired' = "tracking"
    /\ removed' = <<>>
    /\ UNCHANGED <<expired, screen, splashTimeout, sinceChange>>
    /\ UNCHANGED <<mounted, variant, voltage, current, bubbles, intervals, now,
                   unmountedAt, changes>>

SeriesNext ==
    \/ \E v \in SeriesVoltages : SetVoltage(v)
    \/ \E c \in Currents : SetCurrent(c)
    \/ \E i \in intervals : Sample(i)

SeriesSpec == Init /\ [][SeriesNext]_vars

-----------------------------------------------------------------------------
(* The sliders, in the experiment screen and in the screen of App.tsx.save. *)
(* A slider reports the position of the thumb, which the component keeps    *)
(* between minimumValue and maximumValue.                                   *)

appSaveInitial == 0
appSaveSliderMin == 0
appSaveSliderMax == 100

RawVoltages == {0, 10, 50, 120, 130}
RawCurrents == {0, 1, 5, 50, 60}
RawAppSave == {-10, 0, 20, 100, 110}

\* variant of sliderValue: the position is reported as it is
sliderValueUnclamped(min, max, raw) == raw

\* <Slider minimumValue={min} maximumValue={max} .../>
sliderValue(min, max, raw) ==
    IF raw < min THEN min ELSE IF raw > max THEN max ELSE raw

SlideVoltage(raw) ==
    /\ variant \in Variants
    /\ SetVoltage(sliderValue(sliderVoltageMin, sliderVoltageMax, raw))

SlideCurrent(raw) ==
    /\ variant \in Variants
    /\ SetCurrent(sliderValue(sliderCurrentMin, sliderCurrentMax, raw))

\* App of App.tsx.save: useState<number>(0) twice, no interval
AppSaveInit ==
    /\ mounted = TRUE
    /\ variant = "appSave"
    /\ voltage = appSaveInitial
    /\ current = appSaveInitial
    /\ bubbles = <<>>
    /\ time = 0
    /\ hydrogenData = <<>>
    /\ oxygenData = <<>>
    /\ now = 0
    /\ intervals = {}
    /\ lastFired = "mount"
    /\ unmountedAt = -1
    /\ changes = 0
    /\ tickCurrents = <<>>
    /\ removed = <<>>
    /\ expired = {}
    /\ sinceChange = 0
    /\ screen = "experiment"
    /\ splashTimeout = {}

\* BatteryControl: Slider onValueChange={setVoltage}
AppSaveSetVoltage(raw) ==
    /\ variant = "appSave"
    /\ voltage' = sliderValue(appSaveSliderMin, appSaveSliderMax, raw)
    /\ voltage' # voltage
    /\ lastFired' = "setVoltage"
    /\ UNCHANGED <<mounted, variant, current, bubbles, time, hydrogenData,
                   oxygenData, intervals, now, unmountedAt, changes,
                   tickCurrents, removed, expired, screen, splashTimeout, sinceChange>>

\* BatteryControl: Slider onValueChange={setCurrent}
AppSaveSetCurrent(raw) ==
    /\ variant = "appSave"
    /\ current' = sliderValue(appSaveSliderMin, appSaveSliderMax, raw)
    /\ current' # current
    /\ lastFired' = "setCurrent"
    /\ UNCHANGED <<mounted, variant, voltage, bubbles, time, hydrogenData,
                   oxygenData, intervals, now, unmountedAt, changes,
                   tickCurrents, removed, expired, screen, splashTimeout, sinceChange>>

VariantsInit == Init \/ AppSaveInit

VariantsNext ==
    \/ \E raw \in RawVoltages : SlideVoltage(raw)
    \/ \E raw \in RawCurrents : SlideCurrent(raw)
    \/ \E i \in intervals : Sample(i)
    \/ \E raw \in RawAppSave : AppSaveSetVoltage(raw)
    \/ \E raw \in RawAppSave : AppSaveSetCurrent(raw)

VariantsSpec == VariantsInit /\ [][VariantsNext]_vars

-----------------------------------------------------------------------------
(* App: the screen shown and the timeout of the splash screen.  The         *)
(* experiment screen is mounted when it is selected, with the state of a    *)
(* new component, and runs its three intervals while it is shown.           *)

splashDelay == 3000
Modes == {"experiment", "missions"}

\* if (screen === 'splash') { const timer = setTimeout(..., 3000); ... }
SplashEffect(s, t) == IF s = "splash" THEN {t + splashDelay} ELSE {}

\* variant of SplashCleanup: the effect returns no cleanup
SplashCleanupNone(s, timeouts) == timeouts

\* return () => clearTimeout(timer), returned by the run for the splash only
SplashCleanup(s, timeouts) == IF s = "splash" THEN {} ELSE timeouts

\* setScreen(s) and the effect with deps [screen]
SetScreen(s, timeouts) ==
    /\ screen' = s
    /\ splashTimeout' = IF s = screen
                        THEN timeouts
                        ELSE SplashCleanup(screen, timeouts) \cup SplashEffect(s, now)

AppInit ==
    /\ screen = "splash"
    /\ splashTimeout = SplashEffect("splash", 0)
    /\ mounted = FALSE
    /\ variant \in Variants
    /\ voltage = initialVoltage
    /\ current = initialCurrent
    /\ bubbles = <<>>
    /\ time = 0
    /\ hydrogenData = <<>>
    /\ oxygenData = <<>>
    /\ now = 0
    /\ intervals = {}
    /\ lastFired = "mount"
    /\ unmountedAt = -1
    /\ changes = 0
    /\ tickCurrents = <<>>
    /\ removed = <<>>
    /\ expired = {}
    /\ sinceChange = 0

\* the callback of the splash timeout: setScreen('home'); a screen other
\* than home is left by it
SplashTimeout(t) ==
    /\ t \in splashTimeout /\ t = now
    /\ SetScreen("home", splashTimeout \ {t})
    /\ mounted' = FALSE
    /\ intervals' = {}
    /\ lastFired' = "splashTimeout"
    /\ removed' = <<>>
    /\ UNCHANGED <<variant, voltage, current, bubbles, time, hydrogenData,
                   oxygenData, now, unmountedAt, changes, tickCurrents, expired, sinceChange>>

\* SplashScreen onGetStarted={() => setScreen('home')}
GetStarted ==
    /\ screen = "splash"
    /\ SetScreen("home", splashTimeout)
    /\ lastFired' = "getStarted"
    /\ removed' = <<>>
    /\ UNCHANGED <<mounted, variant, voltage, current, bubbles, time,
                   hydrogenData, oxygenData, intervals, now, unmountedAt,
                   changes, tickCurrents, expired, sinceChange>>

\* HomeScreen onSelectMode={(mode) => setScreen(mode)}; the experiment
\* screen mounts with its initial state and its effects run
SelectMode(mode) ==
    /\ screen = "home"
    /\ SetScreen(mode, splashTimeout)
    /\ lastFired' = "selectMode"
    /\ IF mode = "experiment"
       THEN /\ mounted' = TRUE
            /\ voltage' = initialVoltage
            /\ current' = initialCurrent
            /\ bubbles' = <<>>
            /\ time' = 0
            /\ hydrogenData' = <<>>
            /\ oxygenData' = <<>>
            /\ intervals' = DepEffects(initialVoltage, initialCurrent, now)
                              \cup MountEffect(initialVoltage, initialCurrent, now)
            /\ unmountedAt' = -1
            /\ tickCurrents' = <<>>
            /\ expired' = {}
            /\ sinceChange' = 0
       ELSE UNCHANGED <<mounted, voltage, current, bubbles, time, hydrogenData,
                        oxygenData, intervals, unmountedAt, tickCurrents, expired,
                        sinceChange>>
    /\ removed' = <<>>
    /\ UNCHANGED <<variant, now, changes>>

\* variant of MissionsBack: the splash screen is shown again
MissionsBackToSplash ==
    /\ screen = "missions"
    /\ SetScreen("splash", splashTimeout)
    /\ lastFired' = "missionsBack"
    /\ removed' = <<>>
    /\ UNCHANGED <<mounted, variant, voltage, current, bubbles, time,
                   hydrogenData, oxygenData, intervals, now, unmountedAt,
                   changes, tickCurrents, expired, sinceChange>>

\* MissionsScreen onBack={() => setScreen('home')}
MissionsBack ==
    /\ screen = "missions"
    /\ SetScreen("home", splashTimeout)
    /\ lastFired' = "missionsBack"
    /\ removed' = <<>>
    /\ UNCHANGED <<mounted, variant, voltage, current, bubbles, time,
                   hydrogenData, oxygenData, intervals, now, unmountedAt,
                   changes, tickCurrents, expired, sinceChange>>

\* time passes, never beyond a timer that is due
AppAdvance(d) ==
    /\ now + d <= MaxSteps * d
    /\ \A i \in intervals : now + d <= i.due
    /\ \A t \in splashTimeout : now + d <= t
    /\ now' = now + d
    /\ lastFired' = "advance"
    /\ removed' = <<>>
    /\ sinceChange' = IF sinceChange + d < trackingPeriod
                      THEN sinceChange + d ELSE trackingPeriod
    /\ UNCHANGED <<mounted, variant, voltage, current, bubbles, time,
                   hydrogenData, oxygenData, intervals, unmountedAt, changes,
                   tickCurrents, expired, screen, splashTimeout>>

AppNext ==
    \/ \E t \in splashTimeout : SplashTimeout(t)
    \/ GetStarted
    \/ \E mode \in Modes : SelectMode(mode)
    \/ MissionsBack
    \/ Unmount
    \/ \E i \in intervals, r \in RandomDraws : SpawnBubble(i, r)
    \/ \E i \in intervals : RemoveExpired(i)
    \/ \E i \in intervals : Track(i)
    \/ \E d \in Deltas : AppAdvance(d)

AppSpec == AppInit /\ [][AppNext]_vars

----------------------------------------------------------------------------
(* Properties *)

SameOrFewer(before, after) ==
    \A j \in DOMAIN after : \E i \in DOMAIN before : after[j] = before[i]

\* C1: a tracking or bubble interval firing while voltage <= 1 or
\* current <= 0.1 appends no sample to either series, leaves time unchanged
\* and adds no bubble.
C1_GateClosedNothingProduced ==
    [][ ((voltage <= 10 \/ current <= 1) /\ lastFired' \in {"tracking", "bubble"})
          => /\ hydrogenData' = hydrogenData
             /\ oxygenData' = oxygenData
             /\ time' = time
             /\ SameOrFewer(bubbles, bubbles') ]_vars

C1_Witness ==
    /\ lastFired = "tracking"
    /\ voltage <= 10 \/ current <= 1
    /\ time >= 1

\* C2: at every index the cumulative oxygen is at most the cumulative
\* hydrogen, in the Faraday and in the linear variants.
C2_OxygenAtMostHydrogen ==
    \A i \in DOMAIN oxygenData :
        i \in DOMAIN hydrogenData /\ oxygenData[i] <= hydrogenData[i]

C2_Witness ==
    /\ Len(oxygenData) >= 3
    /\ \E i, j \in DOMAIN tickCurrents : tickCurrents[i] # tickCurrents[j]

\* C3: both cumulative series are non-decreasing, whatever slider changes
\* happened between the ticks.
C3_SeriesNonDecreasing ==
    /\ \A i, j \in DOMAIN hydrogenData : i < j => hydrogenData[i] <= hydrogenData[j]
    /\ \A i, j \in DOMAIN oxygenData : i < j => oxygenData[i] <= oxygenData[j]

C3_Witness ==
    /\ Len(hydrogenData) >= 2
    /\ tickCurrents[Len(tickCurrents)] < tickCurrents[1]
    /\ changes >= 1

\* C4: a tick under the gate appends to each series exactly one value, the
\* previous last value (0 for an empty series) plus the gas's increment for
\* the current in effect, keeps the earlier entries and adds 1 to time.
C4_ActiveTickAppends ==
    [][ (voltage > 10 /\ current > 1 /\ lastFired' = "tracking")
          => /\ Len(hydrogenData') = Len(hydrogenData) + 1
             /\ Len(oxygenData') = Len(oxygenData) + 1
             /\ \A i \in DOMAIN hydrogenData : hydrogenData'[i] = hydrogenData[i]
             /\ \A i \in DOMAIN oxygenData : oxygenData'[i] = oxygenData[i]
             /\ hydrogenData'[Len(hydrogenData')] =
                  (IF hydrogenData = <<>> THEN 0 ELSE hydrogenData[Len(hydrogenData)])
                  + hydrogenProduced(variant, current)
             /\ oxygenData'[Len(oxygenData')] =
                  (IF oxygenData = <<>> THEN 0 ELSE oxygenData[Len(oxygenData)])
                  + oxygenProduced(variant, current)
             /\ time' = time + 1 ]_vars

C4_Witness ==
    /\ lastFired = "tracking"
    /\ voltage > 10 /\ current > 1
    /\ Len(hydrogenData) >= 3
    /\ hydrogenData[3] > hydrogenData[2]

\* C5: each series has exactly one entry per elapsed tick.
C5_OneEntryPerTick ==
    /\ Len(hydrogenData) = time
    /\ Len(oxygenData) = time

C5_Witness ==
    /\ time >= 3
    /\ lastFired = "advance"

\* C6: for every current of the slider range the oxygen increment of a tick
\* is exactly half of the hydrogen increment, in the linear and in the
\* Faraday variants, and so is every increment found in the series.
C6_OxygenIncrementIsHalf ==
    /\ \A c \in sliderCurrentMin..sliderCurrentMax :
          2 * oxygenProduced(variant, c) = hydrogenProduced(variant, c)
    /\ \A i \in DOMAIN oxygenData :
          i \in DOMAIN hydrogenData /\
          2 * (oxygenData[i] - (IF i = 1 THEN 0 ELSE oxygenData[i - 1]))
            = hydrogenData[i] - (IF i = 1 THEN 0 ELSE hydrogenData[i - 1])

C6_Witness ==
    /\ variant = "faradayPadded"
    /\ Len(oxygenData) >= 2
    /\ oxygenData[1] > 0

\* C7: linear variants: when every tick so far ran with the same current c,
\* hydrogenData is [10c, 20c, ..., 10nc] and oxygenData is [5c, ..., 5nc]
\* (c in amperes; the entries are in tenths, c in tenths of an ampere).
C7_LinearConstantCurrent ==
    (/\ variant \in {"linearPadded", "linearUnpadded"}
     /\ tickCurrents # <<>>
     /\ \A i \in DOMAIN tickCurrents : tickCurrents[i] = tickCurrents[1])
    => /\ hydrogenData = [i \in 1..Len(tickCurrents) |-> 10 * tickCurrents[1] * i]
       /\ oxygenData = [i \in 1..Len(tickCurrents) |-> 5 * tickCurrents[1] * i]

C7_Witness ==
    /\ variant = "linearPadded"
    /\ voltage = 50
    /\ tickCurrents = <<5, 5>>
    /\ hydrogenData = <<50, 100>>
    /\ oxygenData = <<25, 50>>

Min(a, b) == IF a <= b THEN a ELSE b

\* the last 10 samples, left-padded with zeros to 10 points
PaddedWindow(data, view) ==
    /\ Len(view) = 10
    /\ \A k \in 1..10 :
          view[k] = IF k <= 10 - Len(data) THEN 0 ELSE data[Len(data) - 10 + k]

\* the last min(n, 10) samples
BareWindow(data, view) ==
    /\ Len(view) = Min(Len(data), 10)
    /\ \A k \in 1..Len(view) : view[k] = data[Len(data) - Len(view) + k]

C9_AlwaysYoungerThanLifetime ==
    (mounted /\ \A t \in intervals : t.kind = "remove" => t.due > now)
        => \A i \in DOMAIN bubbles : now - bubbles[i].id < 3000

\* C9 amended: right after every sweep every bubble is younger than 3000 ms;
\* between two sweeps a bubble may be older, but younger than 3000 ms plus
\* the sweep period of 500 ms.
C9_YoungAfterSweep ==
    /\ lastFired = "remove" => \A i \in DOMAIN bubbles : now - bubbles[i].id < 3000
    /\ mounted => \A i \in DOMAIN bubbles : now - bubbles[i].id < 3000 + 500

C9_Witness ==
    /\ mounted
    /\ \E i \in DOMAIN bubbles : now - bubbles[i].id >= 3000
    /\ \A t \in intervals : t.kind = "remove" => t.due > now

\* C10: while the screen is mounted no step removes a bubble that is younger
\* than 3000 ms after the step, and no step alters it.
C10_NeverRemovedEarly ==
    [][ mounted' =>
          \A i \in DOMAIN bubbles :
              now' - bubbles[i].id < 3000
                => \E j \in DOMAIN bubbles' : bubbles'[j] = bubbles[i] ]_vars

C10_Witness ==
    /\ lastFired = "remove"
    /\ Len(bubbles) >= 2
    /\ now - bubbles[1].id = 2500
    /\ \E t \in intervals : t.kind = "bubble"

\* C11: a firing of the bubble interval adds exactly one bubble at the end of
\* the population, with id = the time of the firing, left in [10, 90] and
\* side left or right, and keeps the bubbles already present; no step
\* changes the left or the side of a bubble that stays in the population.
C11_SpawnAddsOneBubble ==
    /\ [][ lastFired' = "bubble"
             => /\ voltage > 10 /\ current > 1
                /\ Len(bubbles') = Len(bubbles) + 1
                /\ \A i \in DOMAIN bubbles : bubbles'[i] = bubbles[i]
                /\ bubbles'[Len(bubbles')].id = now
                /\ bubbles'[Len(bubbles')].left \in 10..90
                /\ bubbles'[Len(bubbles')].side \in {"left", "right"} ]_vars
    /\ [][ \A i \in DOMAIN bubbles : \A j \in DOMAIN bubbles' :
             bubbles'[j].id = bubbles[i].id
               => /\ bubbles'[j].left = bubbles[i].left
                  /\ bubbles'[j].side = bubbles[i].side ]_vars

C11_Witness ==
    /\ lastFired = "bubble"
    /\ Len(bubbles) >= 3
    /\ bubbles[1].side # bubbles[3].side
    /\ bubbles[3].id = now

\* C12: a sweep at time now removes exactly the bubbles with
\* now - id >= 3000 and keeps all others in their order, unchanged; with no
\* expired bubble it removes nothing.
C12_SweepRemovesExactlyExpired ==
    [][ lastFired' = "remove"
          => /\ bubbles' = SelectSeq(bubbles, LAMBDA b : ~(now - b.id >= 3000))
             /\ \A i \in DOMAIN bubbles :
                   (now - bubbles[i].id >= 3000)
                     <=> ~(\E j \in DOMAIN bubbles' : bubbles'[j] = bubbles[i])
             /\ \A j, k \in DOMAIN bubbles' :
                   j < k => \E a, b \in DOMAIN bubbles :
                              /\ a < b
                              /\ bubbles[a] = bubbles'[j]
                              /\ bubbles[b] = bubbles'[k]
             /\ (\A i \in DOMAIN bubbles : now - bubbles[i].id < 3000)
                   => bubbles' = bubbles ]_vars

C12_Witness ==
    /\ lastFired = "remove"
    /\ Len(removed) = 1
    /\ now - removed[1].id >= 3000
    /\ Len(bubbles) >= 2
    /\ bubbles[1].id < bubbles[2].id

Live(kind) == \E i \in intervals : i.kind = kind

\* C13 as stated: while voltage <= 1 or current <= 0.1 none of the three
\* intervals is live, and all three are live while the gate holds and the
\* screen is mounted.
C13_AllTimersGated ==
    /\ (voltage <= 10 \/ current <= 1)
          => ~Live("bubble") /\ ~Live("remove") /\ ~Live("tracking")
    /\ (mounted /\ voltage > 10 /\ current > 1)
          => Live("bubble") /\ Live("remove") /\ Live("tracking")

\* C13 amended: only the bubble interval is started and stopped by the gate
\* (live exactly when the gate holds and the screen is mounted); the remove
\* and the tracking intervals are live whenever the screen is mounted,
\* whatever the gate.
C13_OnlySpawnTimerGated ==
    /\ Live("bubble") <=> (mounted /\ voltage > 10 /\ current > 1)
    /\ Live("remove") <=> mounted
    /\ Live("tracking") <=> mounted

C13_Witness ==
    /\ mounted
    /\ voltage <= 10 \/ current <= 1
    /\ lastFired = "tracking"
    /\ Live("remove") /\ Live("tracking") /\ ~Live("bubble")

\* C14: no bubble interval fires while the gate is false, a bubble interval
\* that fires is the one started for the present voltage and current, and
\* after the unmount no callback runs, so bubbles, both series and time stay
\* as they are.
C14_TimersReleased ==
    /\ [][ (voltage <= 10 \/ current <= 1) => lastFired' # "bubble" ]_vars
    /\ [][ lastFired' = "bubble"
             => \A i \in intervals :
                   i.kind = "bubble" => i.voltage = voltage /\ i.current = current ]_vars
    /\ [][ ~mounted
             => /\ lastFired' \notin {"bubble", "remove", "tracking"}
                /\ bubbles' = bubbles
                /\ hydrogenData' = hydrogenData
                /\ oxygenData' = oxygenData
                /\ time' = time ]_vars

C14_Witness ==
    /\ ~mounted
    /\ now >= unmountedAt + 1000
    /\ voltage > 10 /\ current > 1
    /\ Len(bubbles) >= 1
    /\ time >= 1

\* C15: after any sequence of slider changes there is at most one live
\* interval of each kind.
C15_AtMostOneIntervalEach ==
    \A kind \in {"bubble", "remove", "tracking"} :
        Cardinality({i \in intervals : i.kind = kind}) <= 1

C15_Witness ==
    /\ changes >= 2
    /\ lastFired \in {"setVoltage", "setCurrent"}
    /\ now >= 250
    /\ Cardinality(intervals) = 3

\* C16: a slider change leaves both series and time unchanged; while the
\* screen is mounted no step shortens or rewrites a series or lowers time,
\* and a sample appended later is not below the last total.
C16_SeriesNeverReset ==
    /\ [][ lastFired' \in {"setVoltage", "setCurrent"}
             => /\ hydrogenData' = hydrogenData
                /\ oxygenData' = oxygenData
                /\ time' = time ]_vars
    /\ [][ /\ Len(hydrogenData') >= Len(hydrogenData)
           /\ Len(oxygenData') >= Len(oxygenData)
           /\ \A i \in DOMAIN hydrogenData : hydrogenData'[i] = hydrogenData[i]
           /\ \A i \in DOMAIN oxygenData : oxygenData'[i] = oxygenData[i]
           /\ time' >= time
           /\ (Len(hydrogenData') > Len(hydrogenData) /\ hydrogenData # <<>>)
                 => hydrogenData'[Len(hydrogenData')] > hydrogenData[Len(hydrogenData)]
           /\ (Len(oxygenData') > Len(oxygenData) /\ oxygenData # <<>>)
                 => oxygenData'[Len(oxygenData')] > oxygenData[Len(oxygenData)] ]_vars

\* the gate was closed by current 0.5 -> 0.1 and opened again by 0.1 -> 1.0,
\* with a sample before and a sample after
C16_Witness ==
    /\ changes = 2
    /\ voltage = 50 /\ current = 10
    /\ lastFired = "tracking"
    /\ Len(tickCurrents) >= 2
    /\ tickCurrents[1] = 5
    /\ tickCurrents[Len(tickCurrents)] = 10
    /\ hydrogenData[Len(hydrogenData)] > hydrogenData[1]

\* C17: the tracking callback leaves the bubbles unchanged, the bubble and
\* the remove callbacks leave both series and time unchanged, and none of
\* the three callbacks changes voltage or current.
C17_ComponentsIndependent ==
    [][ /\ lastFired' = "tracking" => bubbles' = bubbles
        /\ lastFired' \in {"bubble", "remove"}
              => /\ hydrogenData' = hydrogenData
                 /\ oxygenData' = oxygenData
                 /\ time' = time
        /\ lastFired' \in {"tracking", "bubble", "remove"}
              => voltage' = voltage /\ current' = current ]_vars

C17_Witness ==
    /\ lastFired = "remove"
    /\ removed # <<>>
    /\ time >= 3
    /\ Len(bubbles) >= 2

\* C18 as stated: in the variant with animations of 5000 ms (right) and
\* 3000 ms (left) a bubble stays in the population until its age reaches the
\* animation duration of its side.
C18_SweepUsesOwnLifetime ==
    [][ (mounted' /\ variant = "faradayPadded")
          => \A i \in DOMAIN bubbles :
                now' - bubbles[i].id < animationDuration(variant, bubbles[i].side)
                  => \E j \in DOMAIN bubbles' : bubbles'[j] = bubbles[i] ]_vars

\* C18 amended: the sweep uses 3000 ms for every bubble whatever its side: in
\* that variant a right-side bubble, like a left-side one, is kept by a
\* sweep exactly when its age is below 3000 ms, and so it is removed before
\* its animation of 5000 ms has ended.
C18_SweepIgnoresSide ==
    /\ [][ (lastFired' = "remove" /\ variant = "faradayPadded")
             => \A i \in DOMAIN bubbles :
                   bubbles[i].side \in {"left", "right"}
                   /\ ((\E j \in DOMAIN bubbles' : bubbles'[j] = bubbles[i])
                         <=> now - bubbles[i].id < 3000) ]_vars
    /\ [][ (lastFired' = "remove" /\ variant = "faradayPadded")
             => \A k \in DOMAIN removed' :
                   removed'[k].side = "right" => now - removed'[k].id < 5000 ]_vars

C18_Witness ==
    /\ variant = "faradayPadded"
    /\ lastFired = "remove"
    /\ removed # <<>>
    /\ removed[1].side = "right"
    /\ now - removed[1].id < 5000

RateShownIsZero(var, c, electrons) ==
    IF IsFaraday(var)
    THEN RateFixed(c, electrons) = 0
    ELSE RateExponential(c, electrons)[1] = 0

\* C19 as stated: whenever voltage <= 1 or current <= 0.1 the hydrogen and
\* oxygen rates shown as text are exactly zero (the increments of the series
\* are the subject of C1).
C19_DisplayedRatesGated ==
    (mounted /\ ~Gate(voltage, current))
        => /\ RateShownIsZero(variant, current, hydrogenElectrons)
           /\ RateShownIsZero(variant, current, oxygenElectrons)

C21_IdsStrictlyIncreasing ==
    /\ \A j, k \in DOMAIN bubbles : j < k => bubbles[j].id < bubbles[k].id
    /\ \A j, k \in DOMAIN bubbles : j # k => bubbles[j].id # bubbles[k].id
    /\ \A j \in DOMAIN bubbles : bubbles[j].id <= now

C21_Witness ==
    /\ lastFired = "bubble"
    /\ changes >= 1
    /\ expired # {}
    /\ Len(bubbles) >= 2
    /\ (bubbles[2].id - bubbles[1].id) % 1000 # 0

\* C22: a bubble is single-use.  No bubble of the population carries the id
\* of a bubble a sweep has removed; every step keeps each bubble as it is or
\* drops it, and only a sweep drops one; a bubble that enters the population
\* is a new one, with an id no bubble has or had.
C22_BubbleSingleUse ==
    /\ [](\A j \in DOMAIN bubbles : bubbles[j].id \notin expired)
    /\ [][ /\ \A j \in DOMAIN bubbles' :
                \/ \E i \in DOMAIN bubbles : bubbles'[j] = bubbles[i]
                \/ /\ lastFired' = "bubble"
                   /\ bubbles'[j].id \notin expired
                   /\ \A i \in DOMAIN bubbles : bubbles[i].id # bubbles'[j].id
           /\ (\E i \in DOMAIN bubbles :
                  \A j \in DOMAIN bubbles' : bubbles'[j].id # bubbles[i].id)
                => lastFired' = "remove" ]_vars

C22_Witness ==
    /\ lastFired = "bubble"
    /\ Cardinality(expired) >= 1
    /\ Len(bubbles) >= 3
    /\ \A j \in DOMAIN bubbles : bubbles[j].id \notin expired

\* C23: the splash timeout only performs splash -> home.  While the splash
\* screen is shown its timeout is pending, due 3000 ms after the entry, and
\* a splash screen still shown at that time becomes home; once the splash
\* screen has been left no timeout is pending, and the callback of the
\* timeout runs on the splash screen only.
C23_SplashTimeoutOnlyToHome ==
    /\ [](screen = "splash" => (splashTimeout = {3000} /\ now <= 3000))
    /\ [](screen # "splash" => splashTimeout = {})
    /\ [][ lastFired' = "splashTimeout"
             => (screen = "splash" /\ screen' = "home" /\ now = 3000) ]_vars
    /\ [][ (screen = "splash" /\ now = 3000) => screen' = "home" ]_vars
    /\ [][ (screen \in {"experiment", "missions"} /\ screen' = "home")
             => lastFired' \in {"unmount", "missionsBack"} ]_vars

C23_Witness ==
    /\ screen = "experiment"
    /\ now >= 3250
    /\ time >= 3
    /\ splashTimeout = {}

\* C24: the screen is always one of splash, home, experiment, missions; it
\* starts at splash; the only transitions are splash -> home,
\* home -> experiment, home -> missions, experiment -> home and
\* missions -> home.
C24_ScreenTransitions ==
    /\ [](screen \in {"splash", "home", "experiment", "missions"})
    /\ []((now = 0 /\ lastFired = "mount") => screen = "splash")
    /\ [][ screen' # screen
             => <<screen, screen'>> \in
                  { <<"splash", "home">>, <<"home", "experiment">>,
                    <<"home", "missions">>, <<"experiment", "home">>,
                    <<"missions", "home">> } ]_vars
    /\ [][ screen' = "splash" => screen = "splash" ]_vars
    /\ [](mounted <=> screen = "experiment")

C24_Witness ==
    /\ screen = "missions"
    /\ unmountedAt >= 0
    /\ now < 3000

\* C25: while the gate holds, a change of voltage or current restarts the
\* spawn and the tick period: the new spawn and tick intervals are due
\* 1000 ms after the change and the sweep interval is left as it is.  A
\* sample or a bubble is therefore added only when 1000 ms or more have
\* passed since the last change, so changes less than 1000 ms apart yield
\* neither.
C25_ChangeRestartsPeriods ==
    /\ [][ (/\ lastFired' \in {"setVoltage", "setCurrent"}
            /\ voltage > 10 /\ current > 1
            /\ voltage' > 10 /\ current' > 1)
             => /\ \E i \in intervals' : i.kind = "bubble"
                /\ \E i \in intervals' : i.kind = "tracking"
                /\ \A i \in intervals' :
                      i.kind \in {"bubble", "tracking"} => i.due = now + 1000
                /\ {i \in intervals : i.kind = "remove"}
                     = {i \in intervals' : i.kind = "remove"} ]_vars
    /\ [][ (time' # time \/ Len(bubbles') > Len(bubbles))
             => sinceChange >= 1000 ]_vars

C25_Witness ==
    /\ changes = 1
    /\ voltage = 50
    /\ current = 10
    /\ lastFired = "tracking"
    /\ time = 1
    /\ bubbles = <<>>
    /\ now >= 1250
    /\ now % 1000 # 0

C27_BubblesAgeOutAfterGateCloses ==
    /\ [][ lastFired' \in {"setVoltage", "setCurrent"} => bubbles' = bubbles ]_vars
    /\ [][ ((voltage <= 10 \/ current <= 1) /\ (voltage' <= 10 \/ current' <= 1))
             => /\ SameOrFewer(bubbles, bubbles')
                /\ Len(bubbles') <= Len(bubbles)
                /\ bubbles' # bubbles => lastFired' = "remove"
                /\ bubbles = <<>> => bubbles' = <<>> ]_vars
    /\ []((mounted /\ (voltage <= 10 \/ current <= 1))
            => /\ \A i \in intervals : i.kind # "bubble"
               /\ \E i \in intervals : i.kind = "remove" /\ i.due <= now + 500
               /\ \A j \in DOMAIN bubbles : now - bubbles[j].id < 3500)
    /\ []((lastFired = "remove" /\ (voltage <= 10 \/ current <= 1))
            => \A k \in DOMAIN removed :
                  now - removed[k].id >= 3000 /\ now - removed[k].id < 3500)

C27_Witness ==
    /\ mounted
    /\ voltage <= 10 \/ current <= 1
    /\ lastFired = "remove"
    /\ Len(removed) >= 1
    /\ bubbles = <<>>
    /\ sinceChange >= 1000

RECURSIVE HydrogenOf(_, _)
HydrogenOf(var, cs) ==
    IF cs = <<>> THEN <<>>
    ELSE LET prev == HydrogenOf(var, SubSeq(cs, 1, Len(cs) - 1))
         IN  Append(prev, (IF prev = <<>> THEN 0 ELSE prev[Len(prev)])
                            + hydrogenProduced(var, cs[Len(cs)]))

RECURSIVE OxygenOf(_, _)
OxygenOf(var, cs) ==
    IF cs = <<>> THEN <<>>
    ELSE LET prev == OxygenOf(var, SubSeq(cs, 1, Len(cs) - 1))
         IN  Append(prev, (IF prev = <<>> THEN 0 ELSE prev[Len(prev)])
                            + oxygenProduced(var, cs[Len(cs)]))

\* C28: voltage acts on the production through the gate only.  Both series
\* and the tick count are a function of the currents at the active ticks,
\* in which no voltage occurs, and with a voltage above 1 a tick is active
\* exactly when its current is above 0.1; two runs with the same currents at
\* the same ticks and voltages above 1 therefore have the same series and
\* the same tick count.
C28_VoltageOnlyThroughGate ==
    /\ [](/\ hydrogenData = HydrogenOf(variant, tickCurrents)
          /\ oxygenData = OxygenOf(variant, tickCurrents)
          /\ time = Len(tickCurrents))
    /\ [][ (lastFired' = "tracking" /\ voltage > 10)
             => IF current > 1
                THEN tickCurrents' = Append(tickCurrents, current)
                ELSE tickCurrents' = tickCurrents ]_vars

C28_Witness ==
    /\ variant = "linearPadded"
    /\ voltage = 120
    /\ changes = 1
    /\ lastFired = "tracking"
    /\ tickCurrents = <<5, 5, 5>>
    /\ hydrogenData = <<50, 100, 150>>

\* C29: the increment a tick appends is computed from the current in
\* effect when the tick fires: after a change of current from c1 to c2 every
\* later increment is the one of c2.
C29_TickUsesPresentCurrent ==
    [][ (lastFired' = "tracking" /\ Len(hydrogenData') = Len(hydrogenData) + 1)
          => /\ hydrogenData'[Len(hydrogenData')]
                  = (IF hydrogenData = <<>> THEN 0 ELSE hydrogenData[Len(hydrogenData)])
                      + hydrogenProduced(variant, current)
             /\ oxygenData'[Len(oxygenData')]
                  = (IF oxygenData = <<>> THEN 0 ELSE oxygenData[Len(oxygenData)])
                      + oxygenProduced(variant, current)
             /\ \A i \in intervals : i.kind = "tracking" => i.current = current ]_vars

C29_Witness ==
    /\ variant = "linearUnpadded"
    /\ lastFired = "tracking"
    /\ current = 10
    /\ tickCurrents = <<5, 10, 10>>
    /\ hydrogenData = <<50, 150, 250>>

\* C30 as stated: in every reachable state the labels of the chart are as
\* many as the points of each windowed series, and the label at every
\* position of the window that holds a real sample is the number, counted
\* from 1, of the tick that appended the sample.
C30_LabelsAligned ==
    LET labels == chartLabels(variant, time)
        n == Len(hydrogenData)
        real == Min(n, 10)
    IN  /\ Len(labels) = Len(chartHydrogenData)
        /\ Len(labels) = Len(chartOxygenData)
        /\ \A k \in DOMAIN chartHydrogenData :
              k > Len(chartHydrogenData) - real
                => /\ k \in DOMAIN labels
                   /\ labels[k] = n - Len(chartHydrogenData) + k

====
